---- MODULE Spec2Model ----
(***************************************************************************)
(* camillo-ai-agent, src/main.py: one run of main().  For each keyword the *)
(* three buzz fetchers are called, the weighted buzz is sent to the        *)
(* scoring oracle (the LLM chain), the reply is decoded into a verdict,    *)
(* qualifying verdicts are enriched with market data and appended to the   *)
(* report; afterwards the Camillo/DumbMoney check is appended and the      *)
(* report is posted to the webhook or printed.                             *)
(*                                                                         *)
(* Strings that the code inspects character by character (tickers) are     *)
(* sequences of one-character strings.  An oracle reply is a sequence of   *)
(* tokens (fence, word, whitespace, a JSON value, prose) on which strip,   *)
(* startswith and split are computed as Python computes them.  JSON values *)
(* are tagged records.  A Python exception that nothing catches moves the  *)
(* run to pc = "crashed".                                                  *)
(***************************************************************************)
EXTENDS Integers, Sequences, FiniteSets, TLC

VARIABLES
    kws,            \* the keyword list main iterates (KEYWORDS)
    env,            \* which secrets are set: serper, reddit, x, webhook
    pc,             \* position of the run inside main / analyze_trend
    i,              \* index of the keyword being processed
    serper,         \* (serper_score, serper_info) of the current keyword
    reddit,         \* reddit_score of the current keyword (+ whether the fetch failed)
    xbuzz,          \* (x_score, x_info) of the current keyword
    request,        \* the dict handed to chain.invoke
    content,        \* the oracle's reply (or the exception chain.invoke raised)
    analysis,       \* what analyze_trend returned
    found_signals,  \* main's flag
    todo,           \* the part of the ticker iterable the comprehension has not visited
    tickers_info,   \* the snapshot lines built so far
    report_lines,   \* main's report
    posted,         \* what was handed to requests.post, and how the post ended
    stdout,         \* what the run printed
    calls,          \* history: every function call that reaches outside, in order
    fetched,        \* history: tickers get_stock_info was called with, current keyword
    starved,        \* history: all three fetchers of the current keyword failed or were unconfigured
    high            \* history: indices of the keywords whose verdict has an int score >= 7

vars == << kws, env, pc, i, serper, reddit, xbuzz, request, content, analysis,
           found_signals, todo, tickers_info, report_lines, posted, stdout,
           calls, fetched, starved, high >>

(***************************************************************************)
(* Bounds of the model.                                                    *)
(***************************************************************************)
\* fetchers report counts 0..MaxCount
MaxCount == 1
\* runs over a prefix of KEYWORDS of this length see every oracle reply
MaxKw == 2
\* runs over all of KEYWORDS see at most this many qualifying verdicts
MaxSignals == 2

(***************************************************************************)
(* Program constants.                                                      *)
(***************************************************************************)
THRESHOLD == 7
REDDIT_WEIGHT == 3
X_WEIGHT == 2
RELATED_WEIGHT == 2
ERR_CHARS == 80

KEYWORDS ==
    << "basil mask viral", "kojic acid tiktok", "peptide lotion trend",
       "celsius energy drink", "crocs comfort 2026", "humanoid robot home",
       "ozempic alternative natural", "pickleball ontario", "rucking trend canada",
       "tim hortons viral item", "canadian cottage trend", "solar lawn mower" >>

Null == [t |-> "null"]

Min(a, b) == IF a <= b THEN a ELSE b

(***************************************************************************)
(* JSON values, as json.loads builds them.                                 *)
(***************************************************************************)
JInt(n) == [t |-> "int", v |-> n]
JStr(s) == [t |-> "str", v |-> s]
JList(s) == [t |-> "list", v |-> s]
JDict(f) == [t |-> "dict", f |-> f]

\* dict.get(key, default); the caller has checked d.t = "dict"
Get(d, key, default) == IF key \in DOMAIN d.f THEN d.f[key] ELSE default

(***************************************************************************)
(* Characters and str.lower().                                             *)
(***************************************************************************)
LowerChar(c) ==
    CASE c = "N" -> "n" [] c = "O" -> "o" [] c = "E" -> "e"
      [] c = "X" -> "x" [] c = "Y" -> "y" [] c = "Z" -> "z"
      [] c = "A" -> "a" [] c = "B" -> "b"
      [] OTHER -> c

Lower(s) == [k \in 1..Len(s) |-> LowerChar(s[k])]

\* the characters of a Python str, as iterating over it yields them
Chars(s) == [k \in 1..Len(s) |-> JStr(<< s[k] >>)]

(***************************************************************************)
(* Oracle replies: token sequences, and the string operations of lines     *)
(* 176-178 on them.                                                        *)
(***************************************************************************)
Fence == [tok |-> "fence"]
Word(w) == [tok |-> "word", w |-> w]
Ws == [tok |-> "ws"]
Prose == [tok |-> "prose"]
Json(val) == [tok |-> "json", val |-> val]

RECURSIVE LStrip(_)
LStrip(s) == IF s # << >> /\ Head(s).tok = "ws" THEN LStrip(Tail(s)) ELSE s

RECURSIVE RStrip(_)
RStrip(s) ==
    IF s # << >> /\ s[Len(s)].tok = "ws" THEN RStrip(SubSeq(s, 1, Len(s) - 1)) ELSE s

\* str.strip()
Strip(s) == RStrip(LStrip(s))

IsJsonFenceAt(s, k) ==
    /\ k + 1 <= Len(s)
    /\ s[k].tok = "fence"
    /\ s[k + 1].tok = "word"
    /\ s[k + 1].w = "json"

\* content.startswith("```json")
StartsWithJsonFence(s) == IsJsonFenceAt(s, 1)

\* content.split("```json")[1]: what lies between the first and the second "```json"
AfterJsonFence(s) ==
    LET first == CHOOSE k \in 1..Len(s) :
                     IsJsonFenceAt(s, k) /\ \A j \in 1..(k - 1) : ~IsJsonFenceAt(s, j)
        rest == SubSeq(s, first + 2, Len(s))
        stops == {k \in 1..Len(rest) : IsJsonFenceAt(rest, k)}
    IN  IF stops = {} THEN rest
        ELSE SubSeq(rest, 1, (CHOOSE k \in stops : \A j \in stops : k <= j) - 1)

\* x.split("```")[0]: what lies before the first "```"
BeforeFence(s) ==
    LET stops == {k \in 1..Len(s) : s[k].tok = "fence"}
    IN  IF stops = {} THEN s
        ELSE SubSeq(s, 1, (CHOOSE k \in stops : \A j \in stops : k <= j) - 1)

\* lines 176-178: strip, and unwrap a ```json fence
Unfence(raw) ==
    LET c == Strip(raw)
    IN  IF StartsWithJsonFence(c) THEN Strip(BeforeFence(AfterJsonFence(c))) ELSE c

\* json.loads: one JSON document, whitespace around it allowed; anything else raises
JsonOk(s) == LET c == Strip(s) IN Len(c) = 1 /\ c[1].tok = "json"
JsonLoads(s) == Strip(s)[1].val

(***************************************************************************)
(* Exceptions; str(e)[:n].                                                 *)
(***************************************************************************)
Exc(name, len) == [name |-> name, len |-> len]

Truncate(e, n) == [name |-> e.name, len |-> Min(e.len, n)]

JSONDecodeError == Exc("JSONDecodeError", 43)

(***************************************************************************)
(* analyze_trend, lines 176-187: the verdict made of the oracle's reply.   *)
(***************************************************************************)
Low == << "l", "o", "w" >>

\* lines 181-187
DefaultVerdict(e) ==
    JDict([ asymmetry_score |-> JInt(0),
            thesis          |-> [t |-> "str", v |-> << "Error: " >>, e |-> Truncate(e, ERR_CHARS)],
            tickers         |-> JList(<< >>),
            conviction      |-> JStr(Low),
            sources_summary |-> JStr(<< >>) ])

\* reply: what chain.invoke did, [kind |-> "raise", e] or [kind |-> "ok", content]
Decode(reply) ==
    IF reply.kind = "raise" THEN DefaultVerdict(reply.e)
    ELSE LET c == Unfence(reply.content)
         IN  IF JsonOk(c) THEN JsonLoads(c) ELSE DefaultVerdict(JSONDecodeError)

(***************************************************************************)
(* The fetchers, lines 56-109.                                             *)
(***************************************************************************)
\* get_serper_buzz: resp is [kind |-> "error"] or [kind |-> "ok", organic, related]
GetSerperBuzz(keySet, resp) ==
    IF ~keySet THEN [score |-> 0, info |-> [kind |-> "Serper key not set"]]
    ELSE IF resp.kind = "error" THEN [score |-> 0, info |-> [kind |-> "Serper error"]]
    ELSE [ score |-> resp.organic + resp.related * RELATED_WEIGHT,
           info  |-> [kind |-> "counts", organic |-> resp.organic, related |-> resp.related] ]

\* variant of get_reddit_buzz whose except branch returns the search limit
GetRedditBuzzLimitOnError(configured, resp) ==
    IF ~configured THEN [score |-> 0, failed |-> TRUE]
    ELSE IF resp.kind = "error" THEN [score |-> 10, failed |-> TRUE]
    ELSE [score |-> resp.count, failed |-> FALSE]

\* get_reddit_buzz; "failed" is not part of the return value (history)
GetRedditBuzz(configured, resp) ==
    IF ~configured THEN [score |-> 0, failed |-> TRUE]
    ELSE IF resp.kind = "error" THEN [score |-> 0, failed |-> TRUE]
    ELSE [score |-> resp.count, failed |-> FALSE]

\* get_x_buzz
GetXBuzz(configured, resp) ==
    IF ~configured THEN [score |-> 0, info |-> [kind |-> "X API not configured"]]
    ELSE IF resp.kind = "error" THEN [score |-> 0, info |-> [kind |-> "X error"]]
    ELSE [score |-> resp.count, info |-> [kind |-> "mentions", count |-> resp.count]]

\* variant of line 146 with the Reddit and X weights exchanged
TotalBuzzSwapped(serper_score, reddit_score, x_score) ==
    serper_score + reddit_score * X_WEIGHT + x_score * REDDIT_WEIGHT

\* line 146
TotalBuzz(serper_score, reddit_score, x_score) ==
    serper_score + reddit_score * REDDIT_WEIGHT + x_score * X_WEIGHT

(***************************************************************************)
(* get_stock_info, lines 189-198.  out is what yf.Ticker(ticker).info did: *)
(* [kind |-> "error"] or [kind |-> "ok", info], info a dict.               *)
(***************************************************************************)
NA == [t |-> "str", v |-> << "N", "/", "A" >>]

GetStockInfo(ticker, out) ==
    IF out.kind = "error" THEN [kind |-> "unavailable", ticker |-> ticker]
    ELSE LET price == Get(out.info, "currentPrice", NA)
             mcap  == Get(out.info, "marketCap", NA)
         IN  IF mcap # NA /\ mcap.t # "int"
             THEN \* format(mcap, ",") raises, caught by the bare except
                  [kind |-> "unavailable", ticker |-> ticker]
             ELSE [ kind   |-> "snapshot",
                    ticker |-> ticker,
                    price  |-> price,
                    mcap   |-> IF mcap = NA THEN NA
                               ELSE [t |-> "str", v |-> << "$" >>, grouped |-> mcap.v] ]

(***************************************************************************)
(* Report lines, lines 206-230, and "\n".join.                             *)
(***************************************************************************)
Title == [kind |-> "title"]
Newline == [kind |-> "newline"]
Separator == [kind |-> "separator", dashes |-> 60]
Fallback == [kind |-> "fallback"]

RECURSIVE Join(_)
Join(lines) ==
    IF Len(lines) <= 1 THEN lines
    ELSE << Head(lines), Newline >> \o Join(Tail(lines))

\* lines 218-223: the block of keyword kw with verdict a and snapshot lines infos
Block(kw, score, a, infos) ==
    << [ kind |-> "head", kw |-> [upper |-> kw], score |-> score,
         conviction |-> Get(a, "conviction", JStr(<< "unknown" >>)) ],
       [ kind |-> "thesis", text |-> Get(a, "thesis", JStr(<< "No thesis" >>)) ],
       [ kind |-> "buzz", text |-> Get(a, "sources_summary", JStr(<< "No sources" >>)) ] >>
    \o (IF infos # << >> THEN << [kind |-> "plays", lines |-> Join(infos)] >> ELSE << >>)
    \o << Separator >>

\* check_camillo_signals, lines 111-136: sigs[u] says whether user u's tweets
\* (fetched without error) hold a signal word
Usernames == << "ChrisCamillo", "DumbMoneyTV" >>

CheckCamilloSignals(configured, sigs) ==
    IF ~configured THEN [kind |-> "skipped"]
    ELSE LET signals == SelectSeq(<< 1, 2 >>, LAMBDA u : sigs[u])
         IN  IF signals # << >>
             THEN [kind |-> "signals", text |-> Join([k \in 1..Len(signals) |->
                                                        [kind |-> "signal", user |-> Usernames[signals[k]]]])]
             ELSE [kind |-> "no signals"]

\* variant of lines 229-230 with the flag read the wrong way round
ClosingInverted(camillo_update, found) ==
    << [kind |-> "camillo", text |-> camillo_update] >>
    \o (IF found THEN << Fallback >> ELSE << >>)

\* lines 226-230
Closing(camillo_update, found) ==
    << [kind |-> "camillo", text |-> camillo_update] >>
    \o (IF ~found THEN << Fallback >> ELSE << >>)

(***************************************************************************)
(* The inputs of a run.  A run over the short keyword list (Thorough) sees *)
(* every fetcher response and every oracle reply below; a run over all of  *)
(* KEYWORDS sees the plain ones.                                           *)
(***************************************************************************)
Thorough == Len(kws) <= MaxKw

SerperResponses ==
    IF Thorough
    THEN {[kind |-> "error"]}
         \cup {[kind |-> "ok", organic |-> o, related |-> r] : o \in 0..MaxCount, r \in {0, 1}}
    ELSE {[kind |-> "ok", organic |-> MaxCount, related |-> 0]}

CountResponses ==
    IF Thorough
    THEN {[kind |-> "error"]} \cup {[kind |-> "ok", count |-> c] : c \in 0..MaxCount}
    ELSE {[kind |-> "ok", count |-> MaxCount]}

NONE == << "N", "O", "N", "E" >>
None == << "N", "o", "n", "e" >>
XYZ == << "X", "Y", "Z" >>
AB == << "A", "B" >>
High == << "h", "i", "g", "h" >>

Verdict(score, tickers) ==
    JDict([ asymmetry_score |-> score,
            thesis          |-> JStr(<< "T" >>),
            tickers         |-> tickers,
            conviction      |-> JStr(High),
            sources_summary |-> JStr(<< "S" >>) ])

\* the records of the contracted shape
ShapedPayloads ==
    { Verdict(JInt(8), JList(<< JStr(NONE), JStr(XYZ) >>)),
      Verdict(JInt(7), JList(<< JStr(XYZ), JStr(<< >>), JStr(None), JStr(AB) >>)),
      Verdict(JInt(6), JList(<< JStr(XYZ) >>)) }

\* valid JSON of another shape
UnshapedPayloads ==
    { JDict([asymmetry_score |-> JInt(9)]),
      JDict([thesis |-> JStr(<< "T" >>)]),
      Verdict(JStr(<< "8" >>), JList(<< JStr(XYZ) >>)),
      JList(<< JInt(1) >>),
      Verdict(JInt(8), JList(<< JStr(XYZ), JInt(5) >>)),
      Verdict(JInt(9), Null),
      Verdict(JInt(8), JStr(AB)) }

JsonFenced(p) == << Fence, Word("json"), Ws, Json(p), Ws, Fence >>
BareFenced(p) == << Fence, Ws, Json(p), Ws, Fence >>

Wrappings(p) ==
    { << Json(p) >>,
      << Ws, Json(p), Ws >>,
      JsonFenced(p),
      << Ws >> \o JsonFenced(p) \o << Ws >>,
      BareFenced(p),
      << Prose >> \o JsonFenced(p) }

OracleErrors == { Exc("AuthenticationError", 30), Exc("APIConnectionError", 200) }

ThoroughReplies ==
    {[kind |-> "raise", e |-> e] : e \in OracleErrors}
    \cup {[kind |-> "ok", content |-> << Prose >>]}
    \cup {[kind |-> "ok", content |-> c] : c \in UNION {Wrappings(p) : p \in ShapedPayloads}}
    \cup {[kind |-> "ok", content |-> << Json(p) >>] : p \in UnshapedPayloads}
    \cup {[kind |-> "ok", content |-> JsonFenced(p)] : p \in UnshapedPayloads}

PlainReplies ==
    { [kind |-> "raise", e |-> Exc("AuthenticationError", 30)],
      [kind |-> "ok", content |-> << Json(Verdict(JInt(6), JList(<< >>))) >>],
      [kind |-> "ok", content |-> JsonFenced(Verdict(JInt(7), JList(<< >>)))] }

\* history: the verdict carries an integer score of at least 7
IsHigh(a) ==
    /\ a.t = "dict"
    /\ "asymmetry_score" \in DOMAIN a.f
    /\ a.f.asymmetry_score.t = "int"
    /\ a.f.asymmetry_score.v >= 7

Replies ==
    IF Thorough THEN ThoroughReplies
    ELSE {r \in PlainReplies : IsHigh(Decode(r)) => Cardinality(high) < MaxSignals}

EmptyDict == JDict([k \in {} |-> Null])

StockOutcomes(ticker) ==
    CASE ticker = XYZ ->
           { [kind |-> "error"],
             [kind |-> "ok", info |-> JDict([currentPrice |-> JInt(10), marketCap |-> JInt(1000)])] }
      [] ticker = AB -> { [kind |-> "ok", info |-> EmptyDict] }
      [] ticker = << "A" >> -> { [kind |-> "error"] }
      [] OTHER -> { [kind |-> "ok", info |-> JDict([currentPrice |-> JInt(10), marketCap |-> Null])] }

CamilloOutcomes ==
    IF Thorough THEN [1..2 -> BOOLEAN] ELSE {[u \in 1..2 |-> u = 1]}

PostOutcomes == {"ok", "rejected", "unreachable"}

(***************************************************************************)
(* The state at line 210: the banner is printed, the report holds its      *)
(* title.  The run iterates all 12 KEYWORDS, or (to see every input in a   *)
(* bounded search) their first MaxKw.                                      *)
(***************************************************************************)
Init ==
    /\ kws \in {SubSeq(KEYWORDS, 1, Min(MaxKw, Len(KEYWORDS))), KEYWORDS}
    /\ env \in [serper : BOOLEAN, reddit : BOOLEAN, x : BOOLEAN, webhook : BOOLEAN]
    /\ pc = "serper"
    /\ i = 1
    /\ serper = Null
    /\ reddit = Null
    /\ xbuzz = Null
    /\ request = Null
    /\ content = Null
    /\ analysis = Null
    /\ found_signals = FALSE
    /\ todo = << >>
    /\ tickers_info = << >>
    /\ report_lines = << Title >>
    /\ posted = Null
    /\ stdout = << [line |-> "Camillo Agent Scan"] >>
    /\ calls = << >>
    /\ fetched = << >>
    /\ starved = FALSE
    /\ high = {}

Call(fn) == [fn |-> fn, kw |-> i]

(***************************************************************************)
(* analyze_trend, lines 141-187.                                           *)
(***************************************************************************)
\* line 142
AnalyzeSerper ==
    /\ pc = "serper"
    /\ \E resp \in SerperResponses : serper' = GetSerperBuzz(env.serper, resp)
    /\ calls' = Append(calls, Call("get_serper_buzz"))
    /\ pc' = "reddit"
    /\ UNCHANGED << kws, env, i, reddit, xbuzz, request, content, analysis, found_signals,
                    todo, tickers_info, report_lines, posted, stdout, fetched, starved, high >>

\* line 143
AnalyzeReddit ==
    /\ pc = "reddit"
    /\ \E resp \in CountResponses : reddit' = GetRedditBuzz(env.reddit, resp)
    /\ calls' = Append(calls, Call("get_reddit_buzz"))
    /\ pc' = "x"
    /\ UNCHANGED << kws, env, i, serper, xbuzz, request, content, analysis, found_signals,
                    todo, tickers_info, report_lines, posted, stdout, fetched, starved, high >>

\* line 144
AnalyzeX ==
    /\ pc = "x"
    /\ \E resp \in CountResponses : xbuzz' = GetXBuzz(env.x, resp)
    /\ calls' = Append(calls, Call("get_x_buzz"))
    /\ pc' = "invoke"
    /\ UNCHANGED << kws, env, i, serper, reddit, request, content, analysis, found_signals,
                    todo, tickers_info, report_lines, posted, stdout, fetched, starved, high >>

\* lines 146-175: the request handed to chain.invoke
BuildRequest(kw, se, re, xb) ==
    [ keyword      |-> kw,
      buzz_score   |-> TotalBuzz(se.score, re.score, xb.score),
      serper_info  |-> se.info,
      reddit_score |-> re.score,
      x_info       |-> xb.info ]

OracleInvoke ==
    /\ pc = "invoke"
    /\ request' = BuildRequest(kws[i], serper, reddit, xbuzz)
    /\ starved' = /\ serper.info.kind \in {"Serper key not set", "Serper error"}
                  /\ reddit.failed
                  /\ xbuzz.info.kind \in {"X API not configured", "X error"}
    /\ calls' = Append(calls, Call("chain.invoke"))
    /\ pc' = "oracle"
    /\ UNCHANGED << kws, env, i, serper, reddit, xbuzz, content, analysis, found_signals,
                    todo, tickers_info, report_lines, posted, stdout, fetched, high >>

\* lines 176-187: chain.invoke returns or raises; analyze_trend returns
OracleReturn ==
    /\ pc = "oracle"
    /\ \E reply \in Replies :
          /\ content' = reply
          /\ analysis' = Decode(reply)
    /\ high' = IF IsHigh(analysis') THEN high \cup {i} ELSE high
    /\ serper' = Null
    /\ reddit' = Null
    /\ xbuzz' = Null
    /\ request' = Null
    /\ pc' = "gate"
    /\ UNCHANGED << kws, env, i, found_signals, todo, tickers_info, report_lines, posted,
                    stdout, calls, fetched, starved >>

(***************************************************************************)
(* main, lines 210-223.                                                    *)
(***************************************************************************)
\* variants of the line-214 test: strict, and always true
QualifiesStrict(score) == score > THRESHOLD
QualifiesAny(score) == score >= 0

\* line 214
Qualifies(score) == score >= THRESHOLD

\* what "for t in tickers" iterates over; 0 when tickers is not iterable
Iterable(tickers) == tickers.t \in {"list", "str"}
Elements(tickers) == IF tickers.t = "str" THEN Chars(tickers.v) ELSE tickers.v

\* lines 212-216.  analysis.get on a non-dict raises AttributeError, score >= 7
\* on a non-number raises TypeError, iterating a non-iterable raises TypeError
Gate ==
    /\ pc = "gate"
    /\ IF analysis.t # "dict" THEN
            /\ pc' = "crashed"
            /\ UNCHANGED << found_signals, todo >>
       ELSE LET score == Get(analysis, "asymmetry_score", JInt(0))
                tickers == Get(analysis, "tickers", JList(<< >>))
            IN  IF score.t # "int" THEN
                    /\ pc' = "crashed"
                    /\ UNCHANGED << found_signals, todo >>
                ELSE IF ~Qualifies(score.v) THEN
                    /\ pc' = "next"
                    /\ UNCHANGED << found_signals, todo >>
                ELSE IF ~Iterable(tickers) THEN
                    /\ found_signals' = TRUE
                    /\ pc' = "crashed"
                    /\ UNCHANGED todo
                ELSE
                    /\ found_signals' = TRUE
                    /\ todo' = Elements(tickers)
                    /\ pc' = "enrich"
    /\ UNCHANGED << kws, env, i, serper, reddit, xbuzz, request, content, analysis,
                    tickers_info, report_lines, posted, stdout, calls, fetched, starved, high >>

\* bool(t)
Truthy(t) ==
    CASE t.t = "str" -> t.v # << >>
      [] t.t = "int" -> t.v # 0
      [] t.t = "list" -> t.v # << >>
      [] t.t = "dict" -> DOMAIN t.f # {}
      [] OTHER -> FALSE

\* variant of the filter that compares without lower()
WantedCaseSensitive(t) == Truthy(t) /\ t.v # << "n", "o", "n", "e" >>

\* line 217, the filter: t and t.lower() != "none"; the caller has checked that t is a str
Wanted(t) == Truthy(t) /\ Lower(t.v) # << "n", "o", "n", "e" >>

\* line 217, one element of the comprehension
Enrich ==
    /\ pc = "enrich"
    /\ todo # << >>
    /\ LET t == Head(todo)
       IN  IF Truthy(t) /\ t.t # "str" THEN
               \* t.lower() raises AttributeError
               /\ pc' = "crashed"
               /\ UNCHANGED << todo, tickers_info, calls, fetched >>
           ELSE IF ~Wanted(t) THEN
               /\ todo' = Tail(todo)
               /\ UNCHANGED << pc, tickers_info, calls, fetched >>
           ELSE
               /\ \E out \in StockOutcomes(t.v) :
                     tickers_info' = Append(tickers_info, GetStockInfo(t.v, out))
               /\ fetched' = Append(fetched, t.v)
               /\ calls' = Append(calls, Call("get_stock_info"))
               /\ todo' = Tail(todo)
               /\ UNCHANGED pc
    /\ UNCHANGED << kws, env, i, serper, reddit, xbuzz, request, content, analysis,
                    found_signals, report_lines, posted, stdout, starved, high >>

\* lines 218-223
AppendBlock ==
    /\ pc = "enrich"
    /\ todo = << >>
    /\ report_lines' = report_lines
                        \o Block(kws[i], Get(analysis, "asymmetry_score", JInt(0)),
                                 analysis, tickers_info)
    /\ pc' = "next"
    /\ UNCHANGED << kws, env, i, serper, reddit, xbuzz, request, content, analysis,
                    found_signals, todo, tickers_info, posted, stdout, calls, fetched,
                    starved, high >>

\* line 210: the loop takes the next keyword, or ends
Advance ==
    /\ pc = "next"
    /\ IF i < Len(kws) THEN i' = i + 1 /\ pc' = "serper"
                       ELSE i' = i /\ pc' = "camillo"
    /\ content' = Null
    /\ analysis' = Null
    /\ tickers_info' = << >>
    /\ fetched' = << >>
    /\ starved' = FALSE
    /\ UNCHANGED << kws, env, serper, reddit, xbuzz, request, found_signals, todo,
                    report_lines, posted, stdout, calls, high >>

(***************************************************************************)
(* main, lines 225-244.                                                    *)
(***************************************************************************)
\* lines 226-230
CamilloCheck ==
    /\ pc = "camillo"
    /\ \E sigs \in CamilloOutcomes :
          report_lines' = report_lines
                          \o Closing(CheckCamilloSignals(env.x, sigs), found_signals)
    /\ calls' = Append(calls, Call("check_camillo_signals"))
    /\ pc' = "deliver"
    /\ UNCHANGED << kws, env, i, serper, reddit, xbuzz, request, content, analysis,
                    found_signals, todo, tickers_info, posted, stdout, fetched, starved, high >>

\* lines 233-244: requests.post returns (whatever the status), or raises
Deliver ==
    /\ pc = "deliver"
    /\ IF env.webhook
       THEN \E out \in PostOutcomes :
               /\ posted' = [payload |-> Join(report_lines), outcome |-> out]
               /\ stdout' = stdout
                             \o << [line |-> IF out = "unreachable" THEN "Discord send failed"
                                                                   ELSE "Report sent to Discord"],
                                   [line |-> "Scan complete."] >>
               /\ calls' = Append(calls, Call("requests.post"))
       ELSE /\ stdout' = stdout
                         \o << [line |-> "No webhook - printing report:"],
                               [line |-> "report", text |-> Join(report_lines)],
                               [line |-> "Scan complete."] >>
            /\ calls' = Append(calls, Call("print"))
            /\ UNCHANGED posted
    /\ pc' = "done"
    /\ UNCHANGED << kws, env, i, serper, reddit, xbuzz, request, content, analysis,
                    found_signals, todo, tickers_info, report_lines, fetched, starved, high >>

Next ==
    \/ AnalyzeSerper
    \/ AnalyzeReddit
    \/ AnalyzeX
    \/ OracleInvoke
    \/ OracleReturn
    \/ Gate
    \/ Enrich
    \/ AppendBlock
    \/ Advance
    \/ CamilloCheck
    \/ Deliver

Spec == Init /\ [][Next]_vars

(***************************************************************************)
(* Properties.                                                             *)
(***************************************************************************)
AfterLoop == pc \in {"camillo", "deliver", "done"}

\* the header lines of the blocks of a report, in report order
Heads(lines) == SelectSeq(lines, LAMBDA l : l.kind = "head")

\* the keywords of kws whose index is in set, in list order
KwsAt(set) ==
    LET idx == SelectSeq([k \in 1..Len(kws) |-> k], LAMBDA k : k \in set)
    IN  [n \in 1..Len(idx) |-> kws[idx[n]]]

\* what reached the delivery sink or the local output
Delivered ==
    IF env.webhook THEN posted.payload
    ELSE stdout[CHOOSE n \in 1..Len(stdout) : stdout[n].line = "report"].text

\* C1: once the keyword loop has ended, the report holds exactly one block for
\* each keyword whose verdict scored 7 or more, none for any other keyword, and
\* the blocks stand in keyword-list order (not sorted by score).
C1_BlocksFollowKeywordOrder ==
    AfterLoop =>
        LET heads == Heads(report_lines)
        IN  /\ [n \in 1..Len(heads) |-> heads[n].kw.upper] = KwsAt(high)
            /\ \A n \in 1..Len(heads) : heads[n].score.v >= 7
            /\ Len(SelectSeq(report_lines, LAMBDA l : l.kind = "separator")) = Len(heads)

\* C1 witness: a finished run with two blocks, the later one scoring higher
C1_Witness ==
    /\ pc = "done"
    /\ high = {1, 2}
    /\ Len(Heads(report_lines)) = 2
    /\ Heads(report_lines)[1].score.v = 7
    /\ Heads(report_lines)[2].score.v = 8

\* C2 as stated: with all 12 keywords below the threshold, the report handed to
\* the delivery sink is exactly [title line, fallback line].
C2_ReportIsTitleAndFallback ==
    (pc = "done" /\ Len(kws) = 12 /\ high = {})
        => Delivered = Join(<< Title, Fallback >>)

\* C2 amended: with every keyword below the threshold, the delivered report is
\* exactly [title line, Camillo/DumbMoney check line, fallback line].
C2_ReportIsTitleCamilloFallback ==
    (pc = "done" /\ high = {})
        => /\ Len(report_lines) = 3
           /\ report_lines[1] = Title
           /\ report_lines[2].kind = "camillo"
           /\ report_lines[3] = Fallback
           /\ Delivered = << Title, Newline, report_lines[2], Newline, Fallback >>

\* C2 witness: a finished run over all 12 keywords, none of them qualifying
C2_Witness == pc = "done" /\ Len(kws) = 12 /\ high = {} /\ Len(calls) > 4 * 12

\* C3 as stated: whatever the fetchers, the oracle, the enrichment and the
\* delivery do, no error escapes and aborts the run.
C3_RunNeverAborts == pc # "crashed"

\* the contracted shape of a verdict
IsStr(x) == x.t = "str"
IsShaped(a) ==
    /\ a.t = "dict"
    /\ DOMAIN a.f = {"asymmetry_score", "thesis", "tickers", "conviction", "sources_summary"}
    /\ a.f.asymmetry_score.t = "int"
    /\ IsStr(a.f.thesis)
    /\ a.f.tickers.t = "list"
    /\ \A k \in 1..Len(a.f.tickers.v) : IsStr(a.f.tickers.v[k])
    /\ IsStr(a.f.conviction)
    /\ IsStr(a.f.sources_summary)

IsDefaultVerdict(a) ==
    /\ a.t = "dict"
    /\ DOMAIN a.f = {"asymmetry_score", "thesis", "tickers", "conviction", "sources_summary"}
    /\ a.f.asymmetry_score = JInt(0)
    /\ "e" \in DOMAIN a.f.thesis
    /\ a.f.thesis.v = << "Error: " >>
    /\ a.f.thesis.e.len <= 80
    /\ a.f.tickers = JList(<< >>)
    /\ a.f.conviction = JStr(<< "l", "o", "w" >>)
    /\ a.f.sources_summary = JStr(<< >>)

\* C4 as stated: analyze_trend returns a record of the contracted shape or the
\* default verdict.
C4_VerdictShapedOrDefault ==
    analysis # Null => IsShaped(analysis) \/ IsDefaultVerdict(analysis)

\* the score main reads from the verdict is the integer 0
ScoreIsZero(a) == a.t = "dict" /\ Get(a, "asymmetry_score", JInt(0)) = JInt(0)

\* the report holds a block for the current keyword
HasBlock ==
    \E n \in 1..Len(report_lines) :
        report_lines[n].kind = "head" /\ report_lines[n].kw.upper = kws[i]

\* the oracle call raised, or its reply holds no JSON document at all
NoJsonReply ==
    \/ content.kind = "raise"
    \/ content.kind = "ok" /\ \A k \in 1..Len(content.content) : content.content[k].tok # "json"

\* C5 as stated: for a keyword whose three fetchers all fail or are
\* unconfigured, the buzz is 0, the verdict's score is 0 and the report holds no
\* block for it.
C5_StarvedKeywordScoresZero ==
    /\ (starved /\ pc = "oracle") => request.buzz_score = 0
    /\ (starved /\ analysis # Null) => ScoreIsZero(analysis) /\ ~HasBlock

\* C5 amended: for such a keyword the buzz is 0 and that 0 is what the oracle is
\* sent; the verdict is the oracle's: when the oracle call fails or its reply
\* holds no JSON the score is 0 and the report holds no block for the keyword,
\* and a reply that scores the keyword 7 or more does yield its block.
C5_StarvedKeywordBuzzZero ==
    /\ (starved /\ pc = "oracle") => request.buzz_score = 0
    /\ (starved /\ analysis # Null /\ NoJsonReply) => ScoreIsZero(analysis) /\ ~HasBlock
    /\ (starved /\ pc = "next" /\ i \in high) => HasBlock

\* C5 witness: all three fetchers failed, the oracle call raised, and the
\* keyword has been passed over
C5_Witness ==
    /\ starved
    /\ pc = "next"
    /\ env.serper /\ env.reddit /\ ~env.x
    /\ content.kind = "raise"

\* a ticker string that is "none" in some mix of cases
IsSentinel(v) ==
    /\ Len(v) = 4
    /\ v[1] \in {"n", "N"}
    /\ v[2] \in {"o", "O"}
    /\ v[3] \in {"n", "N"}
    /\ v[4] \in {"e", "E"}

\* the verdict's ticker strings that are neither empty nor the sentinel, in order
RequestedTickers(a) ==
    LET all == Elements(Get(a, "tickers", JList(<< >>)))
        kept == SelectSeq(all, LAMBDA t : IsStr(t) /\ t.v # << >> /\ ~IsSentinel(t.v))
    IN  [n \in 1..Len(kept) |-> kept[n].v]

IsPrefix(s, t) == Len(s) <= Len(t) /\ s = SubSeq(t, 1, Len(s))

\* the snapshot lines of the Plays section of the report's last block
LastPlays ==
    LET after == {n \in 1..Len(report_lines) :
                     /\ report_lines[n].kind = "plays"
                     /\ \A m \in (n + 1)..Len(report_lines) : report_lines[m].kind # "head"}
    IN  IF after = {} THEN << >>
        ELSE SelectSeq(report_lines[CHOOSE n \in after : TRUE].lines,
                       LAMBDA l : l.kind # "newline")

\* C6: for a qualifying verdict the market-data fetches, and the snapshot lines
\* of the block's Plays section, match one to one and in order the verdict's
\* tickers that are non-empty and not "none" in any case; a failed fetch still
\* gives its line.
C6_FetchesAndLinesMatchTickers ==
    /\ pc = "enrich" =>
           /\ IsPrefix(fetched, RequestedTickers(analysis))
           /\ Len(tickers_info) = Len(fetched)
    /\ (pc = "next" /\ i \in high) =>
           /\ fetched = RequestedTickers(analysis)
           /\ HasBlock
           /\ Len(LastPlays) = Len(fetched)
           /\ \A n \in 1..Len(fetched) :
                  /\ LastPlays[n].ticker = fetched[n]
                  /\ LastPlays[n].kind \in {"snapshot", "unavailable"}
    /\ (pc \in {"gate", "next"} /\ i \notin high) => fetched = << >>

\* C6 witness: a block whose verdict listed XYZ, "", None and AB: two fetches,
\* the first of them failed, two lines
C6_Witness ==
    /\ pc = "next"
    /\ i \in high
    /\ Len(Get(analysis, "tickers", JList(<< >>)).v) = 4
    /\ fetched = << XYZ, AB >>
    /\ Len(LastPlays) = 2
    /\ LastPlays[1].kind = "unavailable"

\* C7: the buzz handed to the oracle is search*1 + reddit*3 + social*2 of the
\* fetchers' results, unmodified.
C7_BuzzIsWeightedSum ==
    pc = "oracle" =>
        /\ request.buzz_score = serper.score * 1 + reddit.score * 3 + xbuzz.score * 2
        /\ request.keyword = kws[i]

\* C7 witness: search 3, Reddit 1, social 0 give 6
C7_Witness ==
    /\ pc = "oracle"
    /\ serper.score = 3
    /\ reddit.score = 1
    /\ xbuzz.score = 0
    /\ request.buzz_score = 6

CallsOf(fn) == SelectSeq(calls, LAMBDA c : c.fn = fn)
Printed(line) == \E n \in 1..Len(stdout) : stdout[n].line = line

\* C8 as stated: with a webhook there is exactly one delivery attempt carrying
\* the newline-joined report, and every delivery failure (unreachable or
\* rejected) is logged; without one the same text is printed; exactly one of
\* the two happens.
C8_DeliveredOnceFailuresLogged ==
    pc = "done" =>
        /\ Len(CallsOf("requests.post")) + Len(CallsOf("print")) = 1
        /\ env.webhook =>
               /\ Len(CallsOf("requests.post")) = 1
               /\ posted.payload = Join(report_lines)
               /\ posted.outcome \in {"rejected", "unreachable"} => Printed("Discord send failed")
        /\ ~env.webhook =>
               /\ Len(CallsOf("print")) = 1
               /\ Delivered = Join(report_lines)

\* the reply is a record p inside a fenced code block, whitespace around it allowed
IsFencedRecord(c) ==
    LET st == Strip(c)
        inner == {k \in 1..Len(st) : st[k].tok = "json"}
    IN  /\ Len(st) >= 3
        /\ st[1].tok = "fence"
        /\ st[Len(st)].tok = "fence"
        /\ Cardinality(inner) = 1
        /\ \A k \in inner : st[k].val.t = "dict"

FencedRecord(c) == LET st == Strip(c) IN st[CHOOSE k \in 1..Len(st) : st[k].tok = "json"].val

\* C9 as stated: a record wrapped in a fenced code block, whatever the marker,
\* gives the verdict the bare record gives.
C9_FencedDecodesLikeBare ==
    (pc = "gate" /\ content.kind = "ok" /\ IsFencedRecord(content.content))
        => analysis = FencedRecord(content.content)

KeywordFns == << "get_serper_buzz", "get_reddit_buzz", "get_x_buzz", "chain.invoke" >>

\* the names of the fetcher, oracle and market-data calls made for keyword k, in order
FnsFor(k) ==
    LET mine == SelectSeq(calls, LAMBDA c :
                    c.kw = k /\ c.fn \in {"get_serper_buzz", "get_reddit_buzz", "get_x_buzz",
                                          "chain.invoke", "get_stock_info"})
    IN  [n \in 1..Len(mine) |-> mine[n].fn]

IsDelivery(c) == c.fn \in {"requests.post", "print"}

\* call d may directly follow call c
MayFollow(c, d) ==
    CASE c.fn = "get_serper_buzz" -> d.fn = "get_reddit_buzz" /\ d.kw = c.kw
      [] c.fn = "get_reddit_buzz" -> d.fn = "get_x_buzz" /\ d.kw = c.kw
      [] c.fn = "get_x_buzz" -> d.fn = "chain.invoke" /\ d.kw = c.kw
      [] c.fn \in {"chain.invoke", "get_stock_info"} ->
           \/ d.fn = "get_stock_info" /\ d.kw = c.kw
           \/ d.fn = "get_serper_buzz" /\ d.kw = c.kw + 1
           \/ d.fn = "check_camillo_signals" /\ c.kw = Len(kws)
      [] c.fn = "check_camillo_signals" -> IsDelivery(d)
      [] OTHER -> FALSE

\* C10: the outside calls are made in a fixed sequential order: keyword after
\* keyword in list order; for each keyword the search, Reddit and social
\* fetchers, then the oracle exactly once (no retry); market-data fetches only
\* for a score of 7 or more and only after the oracle call; the delivery only
\* after the last keyword.
C10_CallsInFixedOrder ==
    /\ calls # << >> => calls[1] = [fn |-> "get_serper_buzz", kw |-> 1]
    /\ \A p \in 1..(Len(calls) - 1) : MayFollow(calls[p], calls[p + 1])
    /\ \A p \in 1..Len(calls) :
           /\ calls[p].kw \in 1..Len(kws)
           /\ calls[p].fn = "get_stock_info" => calls[p].kw \in high

\* C10 witness: a finished run whose first keyword qualified and fetched two
\* tickers, whose second did not, and which posted the report
C10_Witness ==
    /\ pc = "done"
    /\ env.webhook
    /\ high = {1}
    /\ Len(kws) = 2
    /\ FnsFor(1) = KeywordFns \o << "get_stock_info", "get_stock_info" >>
    /\ FnsFor(2) = KeywordFns

====
